---- MODULE Spec2Model ----
(***************************************************************************)
(* Model of plotpy's parametric surface generators (surface_geometry.rs)   *)
(* and of the Scatter script buffer (scatter.rs, util.rs).                 *)
(*                                                                         *)
(* Numbers: an f64 is modelled in fixed point, the integer v standing for  *)
(* v / Scale; products and quotients are rounded to the nearest unit, as   *)
(* floating point rounds to the nearest representable value.  Angles given *)
(* in degrees and subdivision counts are whole numbers.                    *)
(***************************************************************************)
EXTENDS Integers, Sequences, FiniteSets, TLC

VARIABLES
    surface,   \* Surface: the meshes written to its script buffer, in order
    call,      \* the generator call being made / last made (its arguments)
    ret,       \* what that call returned, or NoRet while it has not run
    log,       \* the values returned by the calls made on the Surface, in order
    scatter,   \* Scatter: its public option fields
    buffer,    \* Scatter.buffer, the script text written so far
    ids,       \* the array ids returned by write_array so far, in order
    draws,     \* the Scatter::draw calls made so far: arguments and buffer around them
    writes     \* the write_array calls made on the buffer so far, in order

surfaceVars == <<surface, call, ret, log>>

scatterVars == <<scatter, buffer, ids, draws, writes>>

vars == <<surface, call, ret, log, scatter, buffer, ids, draws, writes>>

---------------------------------------------------------------------------
(* f64 arithmetic in fixed point *)

Scale == 10000
Inf == 1073741823
NaN == 1073741822

F(i) == i * Scale

Abs(a) == IF a < 0 THEN -a ELSE a

Sign(a) == IF a > 0 THEN 1 ELSE IF a < 0 THEN -1 ELSE 0

\* a / b rounded to the nearest integer (b # 0)
RDiv(a, b) ==
    IF b > 0 THEN (2 * a + b) \div (2 * b)
    ELSE (2 * (-a) + (-b)) \div (2 * (-b))

FMul(a, b) == RDiv(a * b, Scale)

FDiv(a, b) ==
    IF b = 0 THEN (IF a > 0 THEN Inf ELSE IF a < 0 THEN -Inf ELSE NaN)
    ELSE RDiv(a * Scale, b)

\* 1e-10 is below one unit: only 0 is smaller in magnitude
Tiny == 1

PI == 31416
HalfPI == RDiv(PI, 2)

Clamp1(v) == IF v > Scale THEN Scale ELSE IF v < -Scale THEN -Scale ELSE v

\* sine and cosine series on [-pi/2, pi/2], in Horner form
SinSeries(x) ==
    LET x2 == FMul(x, x)
        h5 == Scale - RDiv(x2, 110)
        h4 == Scale - RDiv(FMul(x2, h5), 72)
        h3 == Scale - RDiv(FMul(x2, h4), 42)
        h2 == Scale - RDiv(FMul(x2, h3), 20)
        h1 == Scale - RDiv(FMul(x2, h2), 6)
    IN  Clamp1(FMul(x, h1))

CosSeries(x) ==
    LET x2 == FMul(x, x)
        h5 == Scale - RDiv(x2, 90)
        h4 == Scale - RDiv(FMul(x2, h5), 56)
        h3 == Scale - RDiv(FMul(x2, h4), 30)
        h2 == Scale - RDiv(FMul(x2, h3), 12)
        h1 == Scale - RDiv(FMul(x2, h2), 2)
    IN  Clamp1(h1)

\* the angle brought into (-pi, pi]
Wrap(x) ==
    LET m == x % (2 * PI)
    IN  IF m > PI THEN m - 2 * PI ELSE m

sin(x) ==
    LET w == Wrap(x)
    IN  IF w > HalfPI THEN SinSeries(PI - w)
        ELSE IF w < -HalfPI THEN SinSeries(-PI - w)
        ELSE SinSeries(w)

cos(x) ==
    LET w == Abs(Wrap(x))
    IN  IF w > HalfPI THEN -CosSeries(PI - w) ELSE CosSeries(w)

\* integer square root (floor), by bisection on lo..hi
RECURSIVE SqrtBetween(_, _, _)
SqrtBetween(v, lo, hi) ==
    IF lo >= hi THEN lo
    ELSE LET mid == (lo + hi + 1) \div 2
         IN  IF mid * mid <= v THEN SqrtBetween(v, mid, hi)
             ELSE SqrtBetween(v, lo, mid - 1)

\* square root of a fixed-point value in [0, 1]
FSqrt(a) == SqrtBetween(a * Scale, 0, Scale)

RECURSIVE IPow(_, _)
IPow(a, m) == IF m = 0 THEN Scale ELSE FMul(a, IPow(a, m - 1))

\* a^p for 0 <= a <= 1 and a finite p >= 0, p taken to the nearest half
PowHalves(a, p) ==
    LET halves == RDiv(2 * p, Scale)
    IN  IF halves % 2 = 0 THEN IPow(a, halves \div 2)
        ELSE FMul(FSqrt(a), IPow(a, halves \div 2))

\* f64::powf(a, p) for 0 <= a <= 1
powf(a, p) ==
    IF p = NaN THEN (IF a = Scale THEN Scale ELSE NaN)
    ELSE IF p = Inf THEN (IF a < Scale THEN 0 ELSE Scale)
    ELSE IF p = -Inf THEN (IF a < Scale THEN Inf ELSE Scale)
    ELSE IF p < 0 THEN FDiv(Scale, PowHalves(a, -p))
    ELSE PowHalves(a, p)

\* russell_lab: sign(cos t) * |cos t|^p and sign(sin t) * |sin t|^p
suq_cos(angle, expon) == Sign(cos(angle)) * powf(Abs(cos(angle)), expon)

suq_sin(angle, expon) == Sign(sin(angle)) * powf(Abs(sin(angle)), expon)

---------------------------------------------------------------------------
(* Matrix: a sequence of rows; entry [i][j] of the code is [i + 1][j + 1] here *)

NRow(m) == Len(m)

NCol(m) == IF Len(m) = 0 THEN 0 ELSE Len(m[1])

\* results: Ok((x, y, z)) and Err(message)
Ok(x, y, z) == [ok |-> TRUE, err |-> "", x |-> x, y |-> y, z |-> z]

Err(msg) == [ok |-> FALSE, err |-> msg, x |-> <<>>, y |-> <<>>, z |-> <<>>]

NoRet == [ok |-> FALSE, err |-> "not called", x |-> <<>>, y |-> <<>>, z |-> <<>>]

\* Surface::draw(x, y, z): the mesh is written to the end of the script
draw(self, x, y, z) == Append(self, [x |-> x, y |-> y, z |-> z])

\* outcome of a &mut self method: the Surface afterwards and the value returned
Outcome(self, r) == [self |-> self, ret |-> r]

\* mutant: the plane offset d enters the closure with the wrong sign
calc_z_sign(d, n, x, y) == FDiv(d - FMul(n[1], x) - FMul(n[2], y), n[3])

\* the closure given to generate3d by draw_plane_nzz; it captures d and n
calc_z(d, n, x, y) == FDiv(-d - FMul(n[1], x) - FMul(n[2], y), n[3])

\* russell_lab::generate3d with that closure: a meshgrid of nx by ny points,
\* held as ny rows (along y) of nx columns (along x)
generate3d(xmin, xmax, ymin, ymax, nx, ny, d, n) ==
    LET dx == IF nx = 1 THEN 0 ELSE RDiv(xmax - xmin, nx - 1)
        dy == IF ny = 1 THEN 0 ELSE RDiv(ymax - ymin, ny - 1)
        u(j) == xmin + (j - 1) * dx
        v(i) == ymin + (i - 1) * dy
    IN  [x |-> [i \in 1..ny |-> [j \in 1..nx |-> u(j)]],
         y |-> [i \in 1..ny |-> [j \in 1..nx |-> v(i)]],
         z |-> [i \in 1..ny |-> [j \in 1..nx |-> calc_z(d, n, u(j), v(i))]]]

---------------------------------------------------------------------------
(* Surface generators *)

\* mutant: the grid is generated with nx by ny points instead of nx+1 by ny+1
draw_plane_nzz_points(self, p, n, xmin, xmax, ymin, ymax, nx, ny) ==
    IF Len(p) # 3 \/ Len(n) # 3 THEN
        Outcome(self, Err("p.len() and n.len() must be equal to 3"))
    ELSE IF Abs(n[3]) < Tiny THEN
        Outcome(self, Err("the z-component of the normal vector cannot be zero"))
    ELSE IF nx < 1 \/ ny < 1 THEN
        Outcome(self, Err("nx and ny must be greater than or equal to 2"))
    ELSE
        LET d == -FMul(n[1], p[1]) - FMul(n[2], p[2]) - FMul(n[3], p[3])
            g == generate3d(xmin, xmax, ymin, ymax, nx, ny, d, n)
        IN  Outcome(draw(self, g.x, g.y, g.z), Ok(g.x, g.y, g.z))

\* mutant: the counts are rejected only when both are zero
draw_plane_nzz_both(self, p, n, xmin, xmax, ymin, ymax, nx, ny) ==
    IF Len(p) # 3 \/ Len(n) # 3 THEN
        Outcome(self, Err("p.len() and n.len() must be equal to 3"))
    ELSE IF Abs(n[3]) < Tiny THEN
        Outcome(self, Err("the z-component of the normal vector cannot be zero"))
    ELSE IF nx < 1 /\ ny < 1 THEN
        Outcome(self, Err("nx and ny must be greater than or equal to 2"))
    ELSE
        LET d == -FMul(n[1], p[1]) - FMul(n[2], p[2]) - FMul(n[3], p[3])
            g == generate3d(xmin, xmax, ymin, ymax, nx + 1, ny + 1, d, n)
        IN  Outcome(draw(self, g.x, g.y, g.z), Ok(g.x, g.y, g.z))

\* mutant: the counts are checked after the mesh has been drawn
draw_plane_nzz_late(self, p, n, xmin, xmax, ymin, ymax, nx, ny) ==
    IF Len(p) # 3 \/ Len(n) # 3 THEN
        Outcome(self, Err("p.len() and n.len() must be equal to 3"))
    ELSE IF Abs(n[3]) < Tiny THEN
        Outcome(self, Err("the z-component of the normal vector cannot be zero"))
    ELSE
        LET d == -FMul(n[1], p[1]) - FMul(n[2], p[2]) - FMul(n[3], p[3])
            g == generate3d(xmin, xmax, ymin, ymax, nx + 1, ny + 1, d, n)
        IN  IF nx < 1 \/ ny < 1 THEN
                Outcome(draw(self, g.x, g.y, g.z),
                        Err("nx and ny must be greater than or equal to 2"))
            ELSE Outcome(draw(self, g.x, g.y, g.z), Ok(g.x, g.y, g.z))

draw_plane_nzz(self, p, n, xmin, xmax, ymin, ymax, nx, ny) ==
    IF Len(p) # 3 \/ Len(n) # 3 THEN
        Outcome(self, Err("p.len() and n.len() must be equal to 3"))
    ELSE IF Abs(n[3]) < Tiny THEN
        Outcome(self, Err("the z-component of the normal vector cannot be zero"))
    ELSE IF nx < 1 \/ ny < 1 THEN
        Outcome(self, Err("nx and ny must be greater than or equal to 2"))
    ELSE
        LET d == -FMul(n[1], p[1]) - FMul(n[2], p[2]) - FMul(n[3], p[3])
            g == generate3d(xmin, xmax, ymin, ymax, nx + 1, ny + 1, d, n)
        IN  Outcome(draw(self, g.x, g.y, g.z), Ok(g.x, g.y, g.z))

\* mutant: the two branches of cup are exchanged in z
draw_hemisphere_flip(self, c, r, alpha_min, alpha_max, n_alpha, n_theta, cup) ==
    IF Len(c) # 3 THEN
        Outcome(self, Err("c.len() must be equal to 3"))
    ELSE IF n_alpha < 1 \/ n_theta < 1 THEN
        Outcome(self, Err("n_alpha and n_theta must be greater than or equal to 1"))
    ELSE
        LET a_min == RDiv(alpha_min * PI, 180)
            a_max == RDiv(alpha_max * PI, 180)
            d_alpha == RDiv(a_max - a_min, n_alpha)
            d_theta == RDiv(HalfPI, n_theta)
            alpha(i) == a_min + i * d_alpha
            theta(j) == j * d_theta
            fx(i, j) == IF cup THEN c[1] + FMul(FMul(r, cos(alpha(i))), sin(theta(j)))
                        ELSE c[1] + FMul(FMul(r, cos(alpha(i))), sin(theta(j)))
            fy(i, j) == IF cup THEN c[2] + FMul(FMul(r, sin(alpha(i))), sin(theta(j)))
                        ELSE c[2] + FMul(FMul(r, sin(alpha(i))), sin(theta(j)))
            fz(i, j) == IF cup THEN c[3] + FMul(r, cos(theta(j)))
                        ELSE c[3] - FMul(r, cos(theta(j)))
            x == [i \in 1..n_alpha + 1 |-> [j \in 1..n_theta + 1 |-> fx(i - 1, j - 1)]]
            y == [i \in 1..n_alpha + 1 |-> [j \in 1..n_theta + 1 |-> fy(i - 1, j - 1)]]
            z == [i \in 1..n_alpha + 1 |-> [j \in 1..n_theta + 1 |-> fz(i - 1, j - 1)]]
        IN  Outcome(draw(self, x, y, z), Ok(x, y, z))

\* mutant: theta runs over [0, pi] instead of [0, pi/2]
draw_hemisphere_full(self, c, r, alpha_min, alpha_max, n_alpha, n_theta, cup) ==
    IF Len(c) # 3 THEN
        Outcome(self, Err("c.len() must be equal to 3"))
    ELSE IF n_alpha < 1 \/ n_theta < 1 THEN
        Outcome(self, Err("n_alpha and n_theta must be greater than or equal to 1"))
    ELSE
        LET a_min == RDiv(alpha_min * PI, 180)
            a_max == RDiv(alpha_max * PI, 180)
            d_alpha == RDiv(a_max - a_min, n_alpha)
            d_theta == RDiv(PI, n_theta)
            alpha(i) == a_min + i * d_alpha
            theta(j) == j * d_theta
            fx(i, j) == IF cup THEN c[1] + FMul(FMul(r, cos(alpha(i))), sin(theta(j)))
                        ELSE c[1] + FMul(FMul(r, cos(alpha(i))), sin(theta(j)))
            fy(i, j) == IF cup THEN c[2] + FMul(FMul(r, sin(alpha(i))), sin(theta(j)))
                        ELSE c[2] + FMul(FMul(r, sin(alpha(i))), sin(theta(j)))
            fz(i, j) == IF cup THEN c[3] - FMul(r, cos(theta(j)))
                        ELSE c[3] + FMul(r, cos(theta(j)))
            x == [i \in 1..n_alpha + 1 |-> [j \in 1..n_theta + 1 |-> fx(i - 1, j - 1)]]
            y == [i \in 1..n_alpha + 1 |-> [j \in 1..n_theta + 1 |-> fy(i - 1, j - 1)]]
            z == [i \in 1..n_alpha + 1 |-> [j \in 1..n_theta + 1 |-> fz(i - 1, j - 1)]]
        IN  Outcome(draw(self, x, y, z), Ok(x, y, z))

draw_hemisphere(self, c, r, alpha_min, alpha_max, n_alpha, n_theta, cup) ==
    IF Len(c) # 3 THEN
        Outcome(self, Err("c.len() must be equal to 3"))
    ELSE IF n_alpha < 1 \/ n_theta < 1 THEN
        Outcome(self, Err("n_alpha and n_theta must be greater than or equal to 1"))
    ELSE
        LET a_min == RDiv(alpha_min * PI, 180)
            a_max == RDiv(alpha_max * PI, 180)
            d_alpha == RDiv(a_max - a_min, n_alpha)
            d_theta == RDiv(HalfPI, n_theta)
            alpha(i) == a_min + i * d_alpha
            theta(j) == j * d_theta
            fx(i, j) == IF cup THEN c[1] + FMul(FMul(r, cos(alpha(i))), sin(theta(j)))
                        ELSE c[1] + FMul(FMul(r, cos(alpha(i))), sin(theta(j)))
            fy(i, j) == IF cup THEN c[2] + FMul(FMul(r, sin(alpha(i))), sin(theta(j)))
                        ELSE c[2] + FMul(FMul(r, sin(alpha(i))), sin(theta(j)))
            fz(i, j) == IF cup THEN c[3] - FMul(r, cos(theta(j)))
                        ELSE c[3] + FMul(r, cos(theta(j)))
            x == [i \in 1..n_alpha + 1 |-> [j \in 1..n_theta + 1 |-> fx(i - 1, j - 1)]]
            y == [i \in 1..n_alpha + 1 |-> [j \in 1..n_theta + 1 |-> fy(i - 1, j - 1)]]
            z == [i \in 1..n_alpha + 1 |-> [j \in 1..n_theta + 1 |-> fz(i - 1, j - 1)]]
        IN  Outcome(draw(self, x, y, z), Ok(x, y, z))

\* mutant: y is computed with the cosine of alpha, as x is
draw_superquadric_ycos(self, c, r, k, alpha_min, alpha_max, theta_min, theta_max, n_alpha, n_theta) ==
    IF Len(c) # 3 \/ Len(r) # 3 \/ Len(k) # 3 THEN
        Outcome(self, Err("c.len(), r.len(), and k.len() must be equal to 3"))
    ELSE IF n_alpha < 1 \/ n_theta < 1 THEN
        Outcome(self, Err("n_alpha and n_theta must be greater than or equal to 1"))
    ELSE IF k[1] < 0 \/ k[2] < 0 \/ k[3] < 0 THEN
        Outcome(self, Err("exponents k must be greater than zero"))
    ELSE
        LET aa == FDiv(F(2), k[1])
            bb == FDiv(F(2), k[2])
            cc == FDiv(F(2), k[3])
            a_min == RDiv(alpha_min * PI, 180)
            a_max == RDiv(alpha_max * PI, 180)
            t_min == RDiv(theta_min * PI, 180)
            t_max == RDiv(theta_max * PI, 180)
            d_alpha == RDiv(a_max - a_min, n_alpha)
            d_theta == RDiv(t_max - t_min, n_theta)
            alpha(i) == a_min + i * d_alpha
            theta(j) == t_min + j * d_theta
            fx(i, j) == c[1] + FMul(FMul(r[1], suq_cos(theta(j), aa)), suq_cos(alpha(i), aa))
            fy(i, j) == c[2] + FMul(FMul(r[2], suq_cos(theta(j), bb)), suq_cos(alpha(i), bb))
            fz(i, j) == c[3] + FMul(r[3], suq_sin(theta(j), cc))
            x == [i \in 1..n_alpha + 1 |-> [j \in 1..n_theta + 1 |-> fx(i - 1, j - 1)]]
            y == [i \in 1..n_alpha + 1 |-> [j \in 1..n_theta + 1 |-> fy(i - 1, j - 1)]]
            z == [i \in 1..n_alpha + 1 |-> [j \in 1..n_theta + 1 |-> fz(i - 1, j - 1)]]
        IN  Outcome(draw(self, x, y, z), Ok(x, y, z))

draw_superquadric(self, c, r, k, alpha_min, alpha_max, theta_min, theta_max, n_alpha, n_theta) ==
    IF Len(c) # 3 \/ Len(r) # 3 \/ Len(k) # 3 THEN
        Outcome(self, Err("c.len(), r.len(), and k.len() must be equal to 3"))
    ELSE IF n_alpha < 1 \/ n_theta < 1 THEN
        Outcome(self, Err("n_alpha and n_theta must be greater than or equal to 1"))
    ELSE IF k[1] < 0 \/ k[2] < 0 \/ k[3] < 0 THEN
        Outcome(self, Err("exponents k must be greater than zero"))
    ELSE
        LET aa == FDiv(F(2), k[1])
            bb == FDiv(F(2), k[2])
            cc == FDiv(F(2), k[3])
            a_min == RDiv(alpha_min * PI, 180)
            a_max == RDiv(alpha_max * PI, 180)
            t_min == RDiv(theta_min * PI, 180)
            t_max == RDiv(theta_max * PI, 180)
            d_alpha == RDiv(a_max - a_min, n_alpha)
            d_theta == RDiv(t_max - t_min, n_theta)
            alpha(i) == a_min + i * d_alpha
            theta(j) == t_min + j * d_theta
            fx(i, j) == c[1] + FMul(FMul(r[1], suq_cos(theta(j), aa)), suq_cos(alpha(i), aa))
            fy(i, j) == c[2] + FMul(FMul(r[2], suq_cos(theta(j), bb)), suq_sin(alpha(i), bb))
            fz(i, j) == c[3] + FMul(r[3], suq_sin(theta(j), cc))
            x == [i \in 1..n_alpha + 1 |-> [j \in 1..n_theta + 1 |-> fx(i - 1, j - 1)]]
            y == [i \in 1..n_alpha + 1 |-> [j \in 1..n_theta + 1 |-> fy(i - 1, j - 1)]]
            z == [i \in 1..n_alpha + 1 |-> [j \in 1..n_theta + 1 |-> fz(i - 1, j - 1)]]
        IN  Outcome(draw(self, x, y, z), Ok(x, y, z))

\* mutant: the latitude range handed on covers the upper half only
draw_sphere_half(self, c, r, n_alpha, n_theta) ==
    IF Len(c) # 3 THEN
        Outcome(self, Err("c.len() must be equal to 3"))
    ELSE IF n_alpha < 1 \/ n_theta < 1 THEN
        Outcome(self, Err("n_alpha and n_theta must be greater than or equal to 1"))
    ELSE
        draw_superquadric(self, c, <<r, r, r>>, <<F(2), F(2), F(2)>>,
                          -180, 180, 0, 90, n_alpha, n_theta)

draw_sphere(self, c, r, n_alpha, n_theta) ==
    IF Len(c) # 3 THEN
        Outcome(self, Err("c.len() must be equal to 3"))
    ELSE IF n_alpha < 1 \/ n_theta < 1 THEN
        Outcome(self, Err("n_alpha and n_theta must be greater than or equal to 1"))
    ELSE
        draw_superquadric(self, c, <<r, r, r>>, <<F(2), F(2), F(2)>>,
                          -180, 180, -90, 90, n_alpha, n_theta)

---------------------------------------------------------------------------
(* Script text: util.rs and scatter.rs *)

\* the four decimals of a fixed-point fraction, with leading zeros
Pad4(n) ==
    IF n < 10 THEN "000" \o ToString(n)
    ELSE IF n < 100 THEN "00" \o ToString(n)
    ELSE IF n < 1000 THEN "0" \o ToString(n)
    ELSE ToString(n)

\* format!("{:.15}", val): fifteen decimals
Fixed15(val) ==
    (IF val < 0 THEN "-" ELSE "") \o ToString(Abs(val) \div Scale) \o "."
        \o Pad4(Abs(val) % Scale) \o "00000000000"

\* the decimals of a fraction without trailing zeros
Decimals(n) ==
    IF n % 1000 = 0 THEN ToString(n \div 1000)
    ELSE IF n % 100 = 0 THEN SubSeq(Pad4(n), 1, 2)
    ELSE IF n % 10 = 0 THEN SubSeq(Pad4(n), 1, 3)
    ELSE Pad4(n)

\* format!("{}", val) of an f64: the shortest decimal form
Display(val) ==
    (IF val < 0 THEN "-" ELSE "") \o ToString(Abs(val) \div Scale)
        \o (IF Abs(val) % Scale = 0 THEN "" ELSE "." \o Decimals(Abs(val) % Scale))

\* mutant: the id is numbered by the length of the key, not of the buffer
generate_uid_key(buf, key) == key \o "_" \o ToString(Len(key))

generate_uid(buf, key) == key \o "_" \o ToString(Len(buf))

\* the loop of write_array: every value followed by a comma
RECURSIVE Values(_)
Values(array) ==
    IF array = <<>> THEN ""
    ELSE Fixed15(Head(array)) \o "," \o Values(Tail(array))

\* write_array: the buffer afterwards and the id returned
write_array(buf, name, array) ==
    LET uid == generate_uid(buf, name)
    IN  [buffer |-> buf \o uid \o "=np.array([" \o Values(array) \o "],dtype=float)\n",
         uid |-> uid]

write_arrays(buf, name_x, name_y, array_x, array_y) ==
    LET wx == write_array(buf, name_x, array_x)
        wy == write_array(wx.buffer, name_y, array_y)
    IN  [buffer |-> wy.buffer, uid_x |-> wx.uid, uid_y |-> wy.uid]

\* Scatter::new
NewScatter ==
    [line_alpha |-> 0, line_color |-> "", line_style |-> "", line_width |-> 0,
     marker_alpha |-> 0, marker_color |-> "", marker_every |-> 0,
     marker_is_void |-> FALSE, marker_line_color |-> "", marker_line_style |-> "",
     marker_line_width |-> 0, marker_size |-> 0, marker_style |-> ""]

\* Scatter::options
options(self) ==
    LET line_color == IF self.marker_is_void /\ self.line_color = "" THEN "red"
                      ELSE self.line_color
    IN  (IF self.line_alpha > 0 THEN ",alpha=" \o Display(self.line_alpha) ELSE "")
        \o (IF line_color # "" THEN ",color='" \o line_color \o "'" ELSE "")
        \o (IF self.line_style # "" THEN ",linestyle='" \o self.line_style \o "'" ELSE "")
        \o (IF self.line_width > 0 THEN ",linewidth=" \o Display(self.line_width) ELSE "")
        \o (IF self.marker_alpha > 0 THEN ",markeralpha=" \o Display(self.marker_alpha) ELSE "")
        \o (IF self.marker_color # "" THEN ",markerfacecolor='" \o self.marker_color \o "'"
            ELSE "")
        \o (IF self.marker_every > 0 THEN ",markevery=" \o ToString(self.marker_every) ELSE "")
        \o (IF self.marker_is_void THEN ",markerfacecolor='none'" ELSE "")
        \o (IF self.marker_line_color # ""
            THEN ",markeredgecolor='" \o self.marker_line_color \o "'" ELSE "")
        \o (IF self.marker_line_style # ""
            THEN ",markerlinestyle='" \o self.marker_line_style \o "'" ELSE "")
        \o (IF self.marker_line_width > 0
            THEN ",markeredgewidth=" \o Display(self.marker_line_width) ELSE "")
        \o (IF self.marker_size > 0 THEN ",markersize=" \o Display(self.marker_size) ELSE "")
        \o (IF self.marker_style # "" THEN ",marker='" \o self.marker_style \o "'" ELSE "")

\* mutant: the command names the x array twice
scatter_draw_xx(self, buf, x, y) ==
    LET w == write_arrays(buf, "x", "y", x, y)
        command == "plt.scatter(" \o w.uid_x \o "," \o w.uid_x \o options(self) \o ")\n"
    IN  [buffer |-> w.buffer \o command, uid_x |-> w.uid_x, uid_y |-> w.uid_y]

\* Scatter::draw: the buffer afterwards, and the two ids write_arrays returned
scatter_draw(self, buf, x, y) ==
    LET w == write_arrays(buf, "x", "y", x, y)
        command == "plt.scatter(" \o w.uid_x \o "," \o w.uid_y \o options(self) \o ")\n"
    IN  [buffer |-> w.buffer \o command, uid_x |-> w.uid_x, uid_y |-> w.uid_y]

---------------------------------------------------------------------------
(* Inputs *)

MaxN == 3
MaxCalls == 3

Counts == 0..MaxN

\* centres and points: two of length 3, one too short
Points == {<<0, 0, 0>>, <<F(1), F(2), F(1)>>, <<0, 0>>}

\* normals: along z, oblique, vertical plane (n.z = 0), too long
Normals == {<<0, 0, F(1)>>, <<F(1), -F(1), F(2)>>, <<F(1), 0, 0>>, <<0, 0, F(1), 0>>}

Ranges == {<<-F(1), F(1), -F(1), F(1)>>, <<0, F(3), -F(2), F(2)>>}

Radii == {F(1), F(2), -F(1)}

AlphaRanges == {<<-180, 180>>, <<0, 90>>}

ThetaRanges == {<<-90, 90>>, <<0, 90>>}

RadiiVecs == {<<F(1), F(1), F(1)>>, <<F(2), F(2), F(2)>>, <<F(1), F(2), F(3)>>, <<F(1), F(1)>>}

Exponents == {<<F(2), F(2), F(2)>>, <<F(1), F(1), F(1)>>, <<F(4), F(1), F(2)>>,
              <<F(2), 0, F(2)>>, <<F(2), F(2), -F(1)>>, <<F(2), F(2)>>}

PlaneCalls ==
    [op : {"draw_plane_nzz"}, p : Points, n : Normals, range : Ranges,
     nx : Counts, ny : Counts]

\* the plane z = 0 over [-1, 1] x [-1, 1] with one division each way
UnitSquare ==
    [op |-> "draw_plane_nzz", p |-> <<0, 0, 0>>, n |-> <<0, 0, F(1)>>,
     range |-> <<-F(1), F(1), -F(1), F(1)>>, nx |-> 1, ny |-> 1]

HemisphereCalls ==
    [op : {"draw_hemisphere"}, c : Points, r : Radii, alpha : AlphaRanges,
     n_alpha : Counts, n_theta : Counts, cup : BOOLEAN]

SuperquadricCalls ==
    [op : {"draw_superquadric"}, c : Points, r : RadiiVecs, k : Exponents,
     alpha : AlphaRanges, theta : ThetaRanges, n_alpha : Counts, n_theta : Counts]

\* the unit sphere of 5 x 3 points
UnitSphere15 ==
    [op |-> "draw_sphere", c |-> <<0, 0, 0>>, r |-> F(1), n_alpha |-> 4, n_theta |-> 2]

SphereCalls ==
    [op : {"draw_sphere"}, c : Points, r : Radii, n_alpha : Counts, n_theta : Counts]
        \cup {UnitSphere15}

NoCall == [op |-> "none"]

---------------------------------------------------------------------------
(* State machine: generator calls on one Surface *)

Init ==
    /\ surface = <<>>
    /\ call = NoCall
    /\ ret = NoRet
    /\ log = <<>>
    /\ scatter = NewScatter
    /\ buffer = ""
    /\ ids = <<>>
    /\ draws = <<>>
    /\ writes = <<>>

\* the caller receives o.ret, the Surface becomes o.self
Return(c, o) ==
    /\ surface' = o.self
    /\ ret' = o.ret
    /\ call' = c
    /\ log' = Append(log, o.ret)
    /\ UNCHANGED scatterVars

DrawPlaneNzz(a, limit) ==
    /\ Len(log) < limit
    /\ Return(a, draw_plane_nzz(surface, a.p, a.n, a.range[1], a.range[2],
                                a.range[3], a.range[4], a.nx, a.ny))

DrawHemisphere(a, limit) ==
    /\ Len(log) < limit
    /\ Return(a, draw_hemisphere(surface, a.c, a.r, a.alpha[1], a.alpha[2],
                                 a.n_alpha, a.n_theta, a.cup))

DrawSuperquadric(a, limit) ==
    /\ Len(log) < limit
    /\ Return(a, draw_superquadric(surface, a.c, a.r, a.k, a.alpha[1], a.alpha[2],
                                   a.theta[1], a.theta[2], a.n_alpha, a.n_theta))

DrawSphere(a, limit) ==
    /\ Len(log) < limit
    /\ Return(a, draw_sphere(surface, a.c, a.r, a.n_alpha, a.n_theta))

\* one call of each generator on a new Surface, over all the inputs
Next ==
    \/ \E a \in PlaneCalls : DrawPlaneNzz(a, 1)
    \/ \E a \in HemisphereCalls : DrawHemisphere(a, 1)
    \/ \E a \in SuperquadricCalls : DrawSuperquadric(a, 1)
    \/ \E a \in SphereCalls : DrawSphere(a, 1)

Spec == Init /\ [][Next]_vars

\* sequences of up to MaxCalls calls on one Surface, over a few inputs of each kind
SeqPlaneCalls ==
    {a \in PlaneCalls : /\ a.p \in {<<0, 0, 0>>, <<0, 0>>}
                        /\ a.n \in {<<0, 0, F(1)>>, <<F(1), 0, 0>>}
                        /\ a.range = <<-F(1), F(1), -F(1), F(1)>>
                        /\ a.nx \in {0, 1} /\ a.ny = 1}

SeqHemisphereCalls ==
    {a \in HemisphereCalls : /\ a.c \in {<<0, 0, 0>>, <<0, 0>>}
                             /\ a.r = F(1) /\ a.alpha = <<-180, 180>>
                             /\ a.n_alpha \in {0, 1} /\ a.n_theta = 1}

SeqSuperquadricCalls ==
    {a \in SuperquadricCalls : /\ a.c = <<0, 0, 0>> /\ a.r = <<F(1), F(1), F(1)>>
                               /\ a.k \in {<<F(2), F(2), F(2)>>, <<F(2), F(2), -F(1)>>}
                               /\ a.alpha = <<0, 90>> /\ a.theta = <<0, 90>>
                               /\ a.n_alpha \in {0, 1} /\ a.n_theta = 1}

SeqSphereCalls ==
    {a \in SphereCalls : /\ a.c \in {<<0, 0, 0>>, <<0, 0>>} /\ a.r = F(1)
                         /\ a.n_alpha = 1 /\ a.n_theta \in {0, 1}}

NextSeq ==
    \/ \E a \in SeqPlaneCalls : DrawPlaneNzz(a, MaxCalls)
    \/ \E a \in SeqHemisphereCalls : DrawHemisphere(a, MaxCalls)
    \/ \E a \in SeqSuperquadricCalls : DrawSuperquadric(a, MaxCalls)
    \/ \E a \in SeqSphereCalls : DrawSphere(a, MaxCalls)

SpecSeq == Init /\ [][NextSeq]_vars

---------------------------------------------------------------------------
(* State machine: style settings and draw calls on one Scatter *)

MaxDraws == 2

\* the arrays of tests::draw_works
TestX == <<F(1), F(2), F(3), F(4), F(5)>>

TestY == <<F(1), F(4), F(9), F(16), F(25)>>

\* (x, y) arguments: the test's, empty arrays, unequal lengths with a negative
\* and a fractional value
ArrayPairs == {<<TestX, TestY>>, <<<<>>, <<>>>>, <<<<-15000>>, <<F(10), 2500>>>>}

\* the settings of tests::to_string_works
TestStyle ==
    [line_alpha |-> 7000, line_color |-> "#b33434", line_style |-> "-",
     line_width |-> F(3), marker_alpha |-> 5000, marker_color |-> "#4c4deb",
     marker_every |-> 2, marker_is_void |-> FALSE, marker_line_color |-> "blue",
     marker_line_style |-> "--", marker_line_width |-> 15000, marker_size |-> F(8),
     marker_style |-> "o"]

\* a void marker with no line colour set
VoidStyle == [NewScatter EXCEPT !.marker_is_void = TRUE, !.marker_style = "*"]

Styles == {NewScatter, TestStyle, VoidStyle}

\* one write_array call as the caller sees it: the key and the array given, the
\* buffer's length when the call was made and when it returned, the id returned
Written(buf, name, array) ==
    LET w == write_array(buf, name, array)
    IN  [name |-> name, array |-> array, at |-> Len(buf), end |-> Len(w.buffer),
         uid |-> w.uid]

\* the caller assigns the public fields
SetStyle(st) ==
    /\ scatter # st
    /\ scatter' = st
    /\ UNCHANGED <<buffer, ids, draws, writes>>
    /\ UNCHANGED surfaceVars

ScatterDraw(x, y) ==
    /\ Len(draws) < MaxDraws
    /\ LET o == scatter_draw(scatter, buffer, x, y)
       IN  /\ buffer' = o.buffer
           /\ ids' = ids \o <<o.uid_x, o.uid_y>>
           /\ draws' = Append(draws, [x |-> x, y |-> y, options |-> options(scatter),
                                      before |-> buffer, after |-> o.buffer,
                                      sx |-> o.uid_x, sy |-> o.uid_y])
           /\ writes' = writes \o <<Written(buffer, "x", x),
                                    Written(write_array(buffer, "x", x).buffer, "y", y)>>
    /\ UNCHANGED scatter
    /\ UNCHANGED surfaceVars

NextScatter ==
    \/ \E st \in Styles : SetStyle(st)
    \/ \E a \in ArrayPairs : ScatterDraw(a[1], a[2])

SpecScatter == Init /\ [][NextScatter]_vars

---------------------------------------------------------------------------
(* State machine: write_array, write_arrays and Scatter::draw on one buffer *)

MaxWrites == 4

\* keys: the two Scatter::draw uses, and one that itself ends in "_" and a digit
Keys == {"x", "x_1"}

KeyPairs == {<<"x", "x">>, <<"x_1", "y">>}

Arrays == {<<>>, <<F(1)>>}

WriteArray(name, array) ==
    /\ Len(writes) < MaxWrites
    /\ LET w == write_array(buffer, name, array)
       IN  /\ buffer' = w.buffer
           /\ ids' = Append(ids, w.uid)
    /\ writes' = Append(writes, Written(buffer, name, array))
    /\ UNCHANGED <<scatter, draws>>
    /\ UNCHANGED surfaceVars

WriteArrays(name_x, name_y, array_x, array_y) ==
    /\ Len(writes) + 2 <= MaxWrites
    /\ LET w == write_arrays(buffer, name_x, name_y, array_x, array_y)
       IN  /\ buffer' = w.buffer
           /\ ids' = ids \o <<w.uid_x, w.uid_y>>
    /\ writes' = writes \o <<Written(buffer, name_x, array_x),
                             Written(write_array(buffer, name_x, array_x).buffer,
                                     name_y, array_y)>>
    /\ UNCHANGED <<scatter, draws>>
    /\ UNCHANGED surfaceVars

NextBuffer ==
    \/ \E st \in Styles : SetStyle(st)
    \/ \E name \in Keys, array \in Arrays : WriteArray(name, array)
    \/ \E k \in KeyPairs, a \in ArrayPairs : WriteArrays(k[1], k[2], a[1], a[2])
    \/ \E a \in ArrayPairs : Len(writes) + 2 <= MaxWrites /\ ScatterDraw(a[1], a[2])

SpecBuffer == Init /\ [][NextBuffer]_vars

---------------------------------------------------------------------------
(* Preconditions of the generators, as the specification states them *)

ValidPlane(a) ==
    /\ Len(a.p) = 3 /\ Len(a.n) = 3
    /\ Abs(a.n[3]) >= Tiny
    /\ a.nx >= 1 /\ a.ny >= 1

ValidHemisphere(a) == Len(a.c) = 3 /\ a.n_alpha >= 1 /\ a.n_theta >= 1

ValidSuperquadric(a) ==
    /\ Len(a.c) = 3 /\ Len(a.r) = 3 /\ Len(a.k) = 3
    /\ a.n_alpha >= 1 /\ a.n_theta >= 1
    /\ \A i \in 1..3 : a.k[i] > 0

ValidSphere(a) == Len(a.c) = 3 /\ a.n_alpha >= 1 /\ a.n_theta >= 1

IsShape(m, nrow, ncol) == Len(m) = nrow /\ \A i \in 1..Len(m) : Len(m[i]) = ncol

\* the three grids of a result all have nrow rows of ncol entries
MeshShape(r, nrow, ncol) ==
    r.ok /\ IsShape(r.x, nrow, ncol) /\ IsShape(r.y, nrow, ncol) /\ IsShape(r.z, nrow, ncol)

Angular == {"draw_hemisphere", "draw_superquadric", "draw_sphere"}

ValidAngular(a) ==
    \/ a.op = "draw_hemisphere" /\ ValidHemisphere(a)
    \/ a.op = "draw_superquadric" /\ ValidSuperquadric(a)
    \/ a.op = "draw_sphere" /\ ValidSphere(a)

---------------------------------------------------------------------------
Malformed(a) ==
    \/ /\ a.op = "draw_plane_nzz"
       /\ \/ Len(a.p) # 3 \/ Len(a.n) # 3
          \/ a.nx = 0 \/ a.ny = 0
          \/ Len(a.n) = 3 /\ Abs(a.n[3]) < Tiny
    \/ /\ a.op = "draw_hemisphere"
       /\ (Len(a.c) # 3 \/ a.n_alpha = 0 \/ a.n_theta = 0)
    \/ /\ a.op = "draw_superquadric"
       /\ \/ Len(a.c) # 3 \/ Len(a.r) # 3 \/ Len(a.k) # 3
          \/ a.n_alpha = 0 \/ a.n_theta = 0
          \/ \E i \in 1..Len(a.k) : a.k[i] < 0
    \/ /\ a.op = "draw_sphere"
       /\ (Len(a.c) # 3 \/ a.n_alpha = 0 \/ a.n_theta = 0)

IsError(r) == ~r.ok /\ r.err # "" /\ r.err # NoRet.err /\ r.x = <<>> /\ r.y = <<>> /\ r.z = <<>>

C2_Rejects == (call.op # "none" /\ Malformed(call)) => IsError(ret)

C2_Witness ==
    /\ call.op = "draw_superquadric"
    /\ Len(call.c) = 3 /\ Len(call.r) = 3 /\ Len(call.k) = 3
    /\ call.n_alpha >= 1 /\ call.n_theta >= 1
    /\ call.k[3] < 0
    /\ IsError(ret)

\* C3: a failed call leaves the Surface as it was; after any sequence of calls the
\* Surface holds the meshes returned by the successful calls, one each, in call
\* order, and nothing for the failed ones.
RECURSIVE Drawn(_)
Drawn(rets) ==
    IF rets = <<>> THEN <<>>
    ELSE LET r == rets[Len(rets)]
             before == Drawn(SubSeq(rets, 1, Len(rets) - 1))
         IN  IF r.ok THEN Append(before, [x |-> r.x, y |-> r.y, z |-> r.z]) ELSE before

C3_OneMeshPerSuccess == surface = Drawn(log)

C3_Witness ==
    /\ Len(log) = 3
    /\ log[1].ok /\ ~log[2].ok /\ log[3].ok
    /\ Len(surface) = 2
    /\ surface[2].z = ret.z

---------------------------------------------------------------------------
\* the draw_superquadric call that draw_sphere(c, r, n_alpha, n_theta) stands for
SphereAsSuperquadric(c, r, n_alpha, n_theta) ==
    draw_superquadric(<<>>, c, <<r, r, r>>, <<F(2), F(2), F(2)>>,
                      -180, 180, -90, 90, n_alpha, n_theta).ret

\* C4 as stated: draw_sphere returns exactly what draw_superquadric(c, [r,r,r],
\* [2,2,2], -180, 180, -90, 90, n_alpha, n_theta) returns, grids or error alike.
C4_SameOutcomeAsClaimed ==
    call.op = "draw_sphere"
        => ret = SphereAsSuperquadric(call.c, call.r, call.n_alpha, call.n_theta)

\* C4 amended: draw_sphere succeeds exactly when that draw_superquadric call does
\* and then returns the same three grids; when it fails with c of length 3 it
\* returns the same error, and when c has not length 3 it returns its own error
\* "c.len() must be equal to 3" where draw_superquadric has another message.
C4_Delegates ==
    call.op = "draw_sphere" =>
        LET q == SphereAsSuperquadric(call.c, call.r, call.n_alpha, call.n_theta)
        IN  /\ ret.ok <=> q.ok
            /\ ret.ok => ret = q
            /\ (~ret.ok /\ Len(call.c) = 3) => ret = q
            /\ Len(call.c) # 3 =>
                   /\ ret = Err("c.len() must be equal to 3")
                   /\ q = Err("c.len(), r.len(), and k.len() must be equal to 3")

C4_Witness ==
    /\ call.op = "draw_sphere" /\ ret.ok
    /\ call.n_alpha = 2 /\ call.n_theta = 2 /\ call.r = F(2)
    /\ ret.z[1] = <<call.c[3] - F(2), call.c[3], call.c[3] + F(2)>>

---------------------------------------------------------------------------
\* tolerance of the comparisons: one thousandth
Eps == Scale \div 1000

Close(a, b) == Abs(a - b) <= Eps

Rows(m) == 1..Len(m)

Cols(m) == 1..NCol(m)

\* n . (point - p) for the point at [i][j] of a mesh
PlaneResidual(a, r, i, j) ==
    FMul(a.n[1], r.x[i][j] - a.p[1]) + FMul(a.n[2], r.y[i][j] - a.p[2])
        + FMul(a.n[3], r.z[i][j] - a.p[3])

\* C5: every point sampled by a valid draw_plane_nzz call lies on the plane through
\* p with normal n, within tolerance, and the (x, y) samples are the linearly spaced
\* grid over [xmin, xmax] x [ymin, ymax]; the plane z = 0 over [-1,1] x [-1,1] with
\* nx = ny = 1 gives 2 x 2 grids with z = 0 at the corners (-1,-1), (-1,1), (1,-1), (1,1).
C5_OnPlane ==
    /\ (call.op = "draw_plane_nzz" /\ ValidPlane(call)) =>
          /\ ret.ok
          /\ \A i \in Rows(ret.z) : \A j \in Cols(ret.z) :
                /\ Abs(PlaneResidual(call, ret, i, j)) <= Eps
                /\ Close(ret.x[i][j], call.range[1]
                          + RDiv((j - 1) * (call.range[2] - call.range[1]), call.nx))
                /\ Close(ret.y[i][j], call.range[3]
                          + RDiv((i - 1) * (call.range[4] - call.range[3]), call.ny))
    /\ call = UnitSquare =>
          /\ MeshShape(ret, 2, 2)
          /\ \A i \in 1..2 : \A j \in 1..2 : ret.z[i][j] = 0
          /\ {<<ret.x[i][j], ret.y[i][j]>> : i \in 1..2, j \in 1..2}
                 = {<<-F(1), -F(1)>>, <<-F(1), F(1)>>, <<F(1), -F(1)>>, <<F(1), F(1)>>}

C5_Witness ==
    /\ call.op = "draw_plane_nzz" /\ ret.ok
    /\ call.p = <<F(1), F(2), F(1)>> /\ call.n = <<F(1), -F(1), F(2)>>
    /\ call.nx = 2 /\ call.ny = 1
    /\ ret.z[1][1] # ret.z[2][3]

\* squared distance from the centre c of the point at [i][j] of a mesh
Dist2(c, r, i, j) ==
    FMul(r.x[i][j] - c[1], r.x[i][j] - c[1]) + FMul(r.y[i][j] - c[2], r.y[i][j] - c[2])
        + FMul(r.z[i][j] - c[3], r.z[i][j] - c[3])

\* tolerance on a squared distance near rad^2
Eps2(rad) == Eps + 2 * FMul(Abs(rad), Eps)

NPoints(m) == Len(m) * NCol(m)

\* C6: every one of the (n_alpha+1)*(n_theta+1) points sampled by a valid
\* draw_sphere call is at distance r from the centre c, within tolerance; the unit
\* sphere with n_alpha = 4, n_theta = 2 has 15 points with x^2 + y^2 + z^2 = 1.
C6_OnSphere ==
    (call.op = "draw_sphere" /\ ValidSphere(call)) =>
        /\ ret.ok
        /\ NPoints(ret.x) = (call.n_alpha + 1) * (call.n_theta + 1)
        /\ \A i \in Rows(ret.x) : \A j \in Cols(ret.x) :
              Abs(Dist2(call.c, ret, i, j) - FMul(call.r, call.r)) <= Eps2(call.r)

C6_Witness ==
    /\ call = UnitSphere15 /\ ret.ok
    /\ NPoints(ret.x) = 15 /\ NPoints(ret.y) = 15 /\ NPoints(ret.z) = 15
    /\ \A i \in 1..5 : \A j \in 1..3 : Close(Dist2(<<0, 0, 0>>, ret, i, j), F(1))

---------------------------------------------------------------------------
\* the same draw_hemisphere call with the other value of cup
OtherCup(a) ==
    draw_hemisphere(<<>>, a.c, a.r, a.alpha[1], a.alpha[2], a.n_alpha, a.n_theta, ~a.cup).ret

\* every z of the mesh is on the side of c.z that cup selects, x and y do not
\* depend on cup
CupSide(a, r) ==
    /\ \A i \in Rows(r.z) : \A j \in Cols(r.z) :
          IF a.cup THEN r.z[i][j] <= a.c[3] + Eps ELSE r.z[i][j] >= a.c[3] - Eps
    /\ r.x = OtherCup(a).x
    /\ r.y = OtherCup(a).y

\* C7 as stated: for every draw_hemisphere call that returns a mesh, cup = false
\* puts every z at or above c.z and cup = true at or below, within tolerance, and
\* x and y are the same for both values of cup.
C7_SideAsClaimed == (call.op = "draw_hemisphere" /\ ret.ok) => CupSide(call, ret)

\* C7 amended: the same, for the calls whose radius r is not negative.
C7_Side == (call.op = "draw_hemisphere" /\ ret.ok /\ call.r >= 0) => CupSide(call, ret)

C7_Witness ==
    /\ call.op = "draw_hemisphere" /\ ret.ok
    /\ call.cup /\ call.r = F(2) /\ call.n_theta = 3
    /\ ret.z[1][1] = call.c[3] - F(2)
    /\ ret.z[1][2] < call.c[3] - F(1)

---------------------------------------------------------------------------
\* two grids of one shape that agree entry by entry, within tolerance
CloseGrid(m1, m2) ==
    /\ Len(m1) = Len(m2)
    /\ \A i \in Rows(m1) :
          /\ Len(m1[i]) = Len(m2[i])
          /\ \A j \in 1..Len(m1[i]) : Close(m1[i][j], m2[i][j])

CloseMesh(r1, r2) == CloseGrid(r1.x, r2.x) /\ CloseGrid(r1.y, r2.y) /\ CloseGrid(r1.z, r2.z)

\* columns first..last of every row
ColumnsOf(m, first, last) == [i \in Rows(m) |-> SubSeq(m[i], first, last)]

\* the columns of every row in reverse order
Reversed(m) == [i \in Rows(m) |-> [j \in 1..Len(m[i]) |-> m[i][Len(m[i]) + 1 - j]]]

MeshColumns(r, first, last) ==
    [x |-> ColumnsOf(r.x, first, last), y |-> ColumnsOf(r.y, first, last),
     z |-> ColumnsOf(r.z, first, last)]

MeshReversed(r) == [x |-> Reversed(r.x), y |-> Reversed(r.y), z |-> Reversed(r.z)]

\* draw_superquadric with r = [r,r,r], k = [2,2,2], alpha in [-180,180], theta in [0,90]
UpperSuperquadric(c, r, n_alpha, n_theta) ==
    draw_superquadric(<<>>, c, <<r, r, r>>, <<F(2), F(2), F(2)>>,
                      -180, 180, 0, 90, n_alpha, n_theta).ret

SphereOf(c, r, n_alpha, n_theta) == draw_sphere(<<>>, c, r, n_alpha, n_theta).ret

\* the upper half of a sphere of n_theta divisions: the columns of latitude >= 0
UpperHalf(r, n_theta) == MeshColumns(r, (n_theta + 1) \div 2 + 1, n_theta + 1)

\* a draw_hemisphere call with cup = false over alpha in [-180, 180] that succeeded
DomeCall == call.op = "draw_hemisphere" /\ ret.ok /\ ~call.cup /\ call.alpha = <<-180, 180>>

\* C8 as stated: for the same c, r, n_alpha, n_theta, draw_hemisphere (cup = false,
\* alpha in [-180,180]) and draw_superquadric (k = [2,2,2], theta in [0,90]) give the
\* same grid, entry by entry, as the upper half of draw_sphere.
C8_SameGridAsClaimed ==
    (DomeCall /\ call.r > 0) =>
        LET q == UpperSuperquadric(call.c, call.r, call.n_alpha, call.n_theta)
            s == SphereOf(call.c, call.r, call.n_alpha, call.n_theta)
        IN  /\ CloseMesh(ret, q)
            /\ CloseMesh(q, UpperHalf(s, call.n_theta))

\* C8 amended: the draw_superquadric grid equals, within tolerance, columns
\* n_theta..2*n_theta of draw_sphere called with 2*n_theta divisions, and the
\* draw_hemisphere grid equals the draw_superquadric grid with its theta columns
\* in reverse order (the hemisphere starts at the pole, the superquadric at the
\* equator).
C8_SameGrid ==
    DomeCall =>
        LET q == UpperSuperquadric(call.c, call.r, call.n_alpha, call.n_theta)
            s == SphereOf(call.c, call.r, call.n_alpha, 2 * call.n_theta)
        IN  /\ q.ok /\ s.ok
            /\ CloseMesh(ret, MeshReversed(q))
            /\ CloseMesh(q, MeshColumns(s, call.n_theta + 1, 2 * call.n_theta + 1))

C8_Witness ==
    /\ DomeCall
    /\ call.n_alpha = 3 /\ call.n_theta = 3 /\ call.r = F(2)
    /\ ret.z[1][1] = call.c[3] + F(2)
    /\ UpperSuperquadric(call.c, call.r, 3, 3).z[1][4] = call.c[3] + F(2)

---------------------------------------------------------------------------
\* the text that defines the array named id
ArrayDef(id, array) == id \o "=np.array([" \o Values(array) \o "],dtype=float)\n"

\* the number of places where the text sub occurs in the text s
Occurrences(s, sub) ==
    Cardinality({i \in 1..Len(s) - Len(sub) + 1 : SubSeq(s, i, i + Len(sub) - 1) = sub})

\* C9: every Scatter::draw(x, y) call appends to the buffer, after what it held
\* before, the definition of the x array, the definition of the y array and one
\* plt.scatter(...) line naming the two ids just returned, followed by the option
\* string; after n calls the buffer holds n scatter commands, in call order.
C9_DrawAppends ==
    /\ Len(ids) = 2 * Len(draws)
    /\ \A k \in 1..Len(draws) :
          LET d == draws[k]
          IN  /\ d.sx = ids[2 * k - 1] /\ d.sy = ids[2 * k]
              /\ d.before = (IF k = 1 THEN "" ELSE draws[k - 1].after)
              /\ d.after = d.before \o ArrayDef(d.sx, d.x) \o ArrayDef(d.sy, d.y)
                               \o "plt.scatter(" \o d.sx \o "," \o d.sy \o d.options \o ")\n"
    /\ buffer = (IF draws = <<>> THEN "" ELSE draws[Len(draws)].after)
    /\ Occurrences(buffer, "plt.scatter(") = Len(draws)

\* the buffer tests::draw_works expects
DrawWorksText ==
    "x_0=np.array([1.000000000000000,2.000000000000000,3.000000000000000,"
        \o "4.000000000000000,5.000000000000000,],dtype=float)\n"
        \o "y_119=np.array([1.000000000000000,4.000000000000000,9.000000000000000,"
        \o "16.000000000000000,25.000000000000000,],dtype=float)\n"
        \o "plt.scatter(x_0,y_119)\n"

C9_Witness ==
    /\ Len(draws) = 2
    /\ draws[1].after = DrawWorksText
    /\ draws[2].x = <<-15000>>
    /\ draws[2].options = options(TestStyle)
    /\ SubSeq(buffer, 1, Len(DrawWorksText)) = DrawWorksText
    /\ Len(buffer) > Len(DrawWorksText) + Len(options(TestStyle))

---------------------------------------------------------------------------
IsFinite(v) == Abs(v) < NaN

\* a draw_superquadric call with three exponents of which at least one is not
\* greater than zero
NonPositiveExponent(a) ==
    /\ a.op = "draw_superquadric"
    /\ Len(a.k) = 3
    /\ \E i \in 1..3 : a.k[i] <= 0

\* C10: draw_superquadric returns an error and draws nothing whenever a component
\* of k is not greater than zero (zero included), so that the exponents 2/k[i] of
\* every mesh it returns are finite.
C10_PositiveExponents ==
    /\ NonPositiveExponent(call) => (IsError(ret) /\ surface = <<>>)
    /\ (call.op = "draw_superquadric" /\ ret.ok) =>
           \A i \in 1..3 : IsFinite(FDiv(F(2), call.k[i]))

---------------------------------------------------------------------------
\* the number of lines of the text s that assign to the name id
Assignments(s, id) == Occurrences("\n" \o s, "\n" \o id \o "=")

\* C11: the id write_array returns is its key, "_" and the buffer's length when
\* it was called; every write_array call strictly lengthens the buffer; so over
\* any sequence of write_array, write_arrays and Scatter::draw calls on one buffer
\* no two returned ids are equal, and every array definition written is still in
\* the buffer, where no later line assigns to its id again.
C11_UniqueIds ==
    /\ Len(ids) = Len(writes)
    /\ \A k \in 1..Len(writes) :
          LET w == writes[k]
          IN  /\ ids[k] = w.uid
              /\ w.uid = w.name \o "_" \o ToString(w.at)
              /\ w.end > w.at
              /\ k > 1 => w.at >= writes[k - 1].end
              /\ w.end <= Len(buffer)
              /\ SubSeq(buffer, w.at + 1, w.end) = ArrayDef(w.uid, w.array)
              /\ Assignments(buffer, w.uid) = 1
    /\ \A i, j \in 1..Len(ids) : i # j => ids[i] # ids[j]

\* a draw followed by a write_arrays that uses the key of the draw twice, the
\* first time for the array the draw has written
C11_Witness ==
    /\ Len(writes) = 4
    /\ Len(draws) = 1
    /\ \A k \in {1, 3, 4} : writes[k].name = "x"
    /\ writes[2].name = "y"
    /\ writes[1].array = writes[3].array
    /\ ids[1] = "x_0" /\ ids[2] = "y_119"
    /\ Cardinality({ids[k] : k \in 1..4}) = 4

====
